---- MODULE Spec2Model ----
(***************************************************************************)
(* Service startup orchestrator of the Atlas control panel (src/main.go): *)
(* the bubbletea model's Update loop, the goroutine started by            *)
(* startServicesWithProgress, the process-wide channel                    *)
(* startupProgressChan, the commands that read it, and the dependency     *)
(* start path startServiceIntelligent.                                    *)
(*                                                                         *)
(* The container runtime is an external collaborator: every driver call   *)
(* returns a nondeterministically chosen result.  One result of each call *)
(* is the nominal one (runtime reachable, container not yet running,      *)
(* first command spelling succeeds, container healthy at the first poll); *)
(* each other result counts as one deviation, and a behaviour contains at *)
(* most MaxDeviations of them.                                             *)
(*                                                                         *)
(* Log lines are modelled by their kind (the program never parses them),  *)
(* durations in whole seconds, progress values in units of 1/Scale.       *)
(***************************************************************************)
EXTENDS Integers, Sequences, FiniteSets, TLC

(* ------------------------------ bounds -------------------------------- *)

\* number of times 's' is pressed in a behaviour
MaxRuns == 2

\* number of non-nominal driver results in a behaviour
MaxDeviations == 2

\* number of steps a goroutine, and a chain of read commands, of an earlier
\* run still takes after a later 's' replaced the channel in the global
MaxLateSteps == 1

\* number of events a goroutine of overlapping runs may be ahead of the UI
MaxBacklog == 1

\* number of non-nominal driver results in a behaviour with keys and ticks
MaxKeyDeviations == 1

\* number of non-nominal driver results in a behaviour of keys without a run
MaxCommandDeviations == 4

\* number of non-nominal answers of the runtime to the refreshes of the list
MaxRefreshDeviations == 2

\* the records of the data set behind a list view of the dashboard
MaxResults == 90

(* ------------------------- program constants -------------------------- *)

BusCapacity == 100

CheckInterval == 3

MaxWaitDefault == 120

MaxWaitOllama == 180

UpdateEvery == 3

MaxStartupLogs == 100

RequiredTerminal == 3

DepTimeout == 60

DepPollInterval == 2

\* the page size of the dashboard's list views
ITEMS_PER_PAGE == 20

\* one unit of progress is 1/Scale; 0.05, 0.6 and 0.3 are multiples of it
Scale == 60 * 60

\* latency of a driver call that hangs: long enough to use up any health wait
SlowCall == MaxWaitOllama

(* ------------------------------ helpers ------------------------------- *)

Last(s) == s[Len(s)]

Range(s) == {s[k] : k \in 1..Len(s)}

\* strings.Contains on texts given as sequences of characters
Contains(s, sub) ==
    \E k \in 0..(Len(s) - Len(sub)) :
        \A j \in 1..Len(sub) : s[k + j] = sub[j]

Min(a, b) == IF a < b THEN a ELSE b

(* ------------------------- static service table ----------------------- *)

\* the same list with the dependent service put first
servicesDependentFirst == <<"graphiti-mcp", "falkordb", "ollama">>

\* services := []string{"falkordb", "ollama", "graphiti-mcp"}
services == <<"falkordb", "ollama", "graphiti-mcp">>

total == Len(services)

getServiceDisplayName(containerName) ==
    CASE containerName = "falkordb" -> "FalkorDB"
      [] containerName = "ollama" -> "Ollama"
      [] containerName = "graphiti-mcp" -> "Graphiti MCP"
      [] OTHER -> containerName

getContainerName(serviceName) ==
    CASE serviceName = "Ollama" -> "ollama"
      [] serviceName = "FalkorDB" -> "falkordb"
      [] serviceName = "Graphiti MCP" -> "graphiti-mcp"
      [] serviceName = "Atlas Engine" -> "atlas-engine"
      [] serviceName = "Atlas Dashboard" -> "atlas-dashboard"
      [] OTHER -> ""

\* the dependencies map of startServiceIntelligent
dependencies(containerName) ==
    CASE containerName = "graphiti-mcp" -> <<"falkordb", "ollama">>
      [] containerName = "atlas-engine" -> <<"graphiti-mcp", "falkordb">>
      [] containerName = "atlas-dashboard" -> <<"graphiti-mcp", "falkordb">>
      [] OTHER -> <<>>

ServiceNames == {"Ollama", "FalkorDB", "Graphiti MCP", "Atlas Engine", "Atlas Dashboard"}

DisplayNames == {getServiceDisplayName(services[k]) : k \in 1..total}

(* --------------------------- container driver ------------------------- *)

\* `docker ps --format {{.Status}}` texts, as character sequences
StatusPlain == <<"U", "p", " ", "2", " ", "m", "i", "n", "u", "t", "e", "s">>

StatusHealthy == StatusPlain \o <<" ", "(", "h", "e", "a", "l", "t", "h", "y", ")">>

StatusUnhealthy == StatusPlain \o <<" ", "(", "u", "n", "h", "e", "a", "l", "t", "h", "y", ")">>

StatusStarting ==
    StatusPlain \o <<" ", "(", "h", "e", "a", "l", "t", "h", ":", " ",
                     "s", "t", "a", "r", "t", "i", "n", "g", ")">>

TextHealth == <<"h", "e", "a", "l", "t", "h">>

TextHealthy == <<"h", "e", "a", "l", "t", "h", "y">>

\* What the runtime answers to the commands of getContainerInfo: ps is the
\* name listing ("error", "absent", "listed"), statusErr whether the status
\* query failed, status the status text.
Observation(ps, statusErr, status) == [ps |-> ps, statusErr |-> statusErr, status |-> status]

ObsPsError == Observation("error", FALSE, <<>>)
ObsAbsent == Observation("absent", FALSE, <<>>)
ObsUp == Observation("listed", FALSE, StatusPlain)
ObsHealthy == Observation("listed", FALSE, StatusHealthy)
ObsUnhealthy == Observation("listed", FALSE, StatusUnhealthy)
ObsStarting == Observation("listed", FALSE, StatusStarting)
ObsStatusError == Observation("listed", TRUE, <<>>)

Observations ==
    {ObsPsError, ObsAbsent, ObsUp, ObsHealthy, ObsUnhealthy, ObsStarting, ObsStatusError}

parseHealth(o) ==
    IF o.statusErr THEN "unknown"
    ELSE IF Contains(o.status, TextHealth)
         THEN IF Contains(o.status, TextHealthy) THEN "healthy" ELSE "unhealthy"
         ELSE "running"

\* a failed listing taken for a running container
getContainerInfoTrusting(o) ==
    [running |-> o.ps # "absent", health |-> IF o.ps = "listed" THEN parseHealth(o) ELSE ""]

getContainerInfo(o) ==
    IF o.ps # "listed"
    THEN [running |-> FALSE, health |-> ""]
    ELSE [running |-> TRUE, health |-> parseHealth(o)]

isContainerRunning(o) == o.ps = "listed"

\* the poll loop's test of an inspection result
healthReady(info) == info.running /\ (info.health = "healthy" \/ info.health = "running")

(* -------------------------------- state ------------------------------- *)

VARIABLES
    startupInProgress,   \* model.startupInProgress
    startupProgress,     \* model.startupProgress: service name -> last event
    startupLogs,         \* model.startupLogs
    startupProgressChan, \* the process-wide channel variable: 0 is nil
    chans,               \* every channel made so far: buffer and closed flag
    eng,                 \* the goroutine of each run
    readers,             \* the read command of each run's chain of reads
    cmds,                \* the commands returned by the latest Update call
    panicked,            \* a send or close on a closed channel crashed the process
    deviations,          \* non-nominal driver results so far
    limits,              \* what the explored behaviour is limited to (never changes)
    trace,               \* per run: the driver calls and channel operations done
    intel,               \* the command returned by startServiceIntelligent
    statusMsg,           \* model.statusMsg
    modelServices,       \* model.services
    applied,             \* the progress events Update handled, by number, in order
    ticks,               \* the tick timers started and not yet handled as a tickMsg
    listView             \* the dashboard's mounted list view: page, filters, data

vars == <<startupInProgress, startupProgress, startupLogs, startupProgressChan,
          chans, eng, readers, cmds, panicked, deviations, limits, trace, intel,
          statusMsg, modelServices, applied, ticks, listView>>

uiVars == <<startupInProgress, startupProgress, startupLogs, cmds, statusMsg,
            modelServices, applied, ticks, listView>>

\* the list views of the dashboard and the fields of their filters
Views == {"AnomaliesView", "PatternsView", "ClusteringView"}

FilterFields(v) ==
    CASE v = "AnomaliesView" -> {"tension_type", "severity_min", "is_reviewed"}
      [] v = "PatternsView" -> {"signature_type", "min_confidence", "min_occurrences"}
      [] v = "ClusteringView" -> {"cluster_type", "min_size", "max_size"}

\* no response yet: data is undefined and isLoading is true
NoData == [total |-> -1, count |-> -1]

\* a list view as the router mounts it: useState(0), useState({})
Mounted(v) == [view |-> v, page |-> 0, filters |-> {}, data |-> NoData]

\* the timers the runtime starts for a batch of commands: tick() is
\* tea.Tick(2 s), whose timer delivers one tickMsg
TimersStarted(batch) == IF "tick" \in batch THEN 1 ELSE 0

Runs == 1..MaxRuns

\* the two readings an elapsedTime is set from: time.Since(overallStartTime)
\* by the goroutine of a run, time.Since(m.startupStartTime) by a tick
SinceOverallStart == "since overallStartTime"
SinceStartupStart == "since startupStartTime"

\* startupProgress{...}: the payload of a progressMsg; run tells which
\* goroutine built it and seq how many sends the program had done when it
\* was sent (0 before it is sent); neither is a field of the program
progressMsg(g, name, step, progress, logs) ==
    [run |-> g, serviceName |-> name, step |-> step, progress |-> progress, logs |-> logs,
     elapsedTime |-> SinceOverallStart, seq |-> 0]

\* one entry of trace: a channel operation or a driver call of a goroutine
Op(op, ch, ev) == [op |-> op, ch |-> ch, ev |-> ev]

NoEvent == progressMsg(0, "", "", 0, <<>>)

DriverOp(op, containerName) == Op(op, 0, progressMsg(0, containerName, "", 0, <<>>))

idleEngine ==
    [pc |-> "idle", i |-> 0, logs |-> <<>>, elapsed |-> 0, lastUpdate |-> 0,
     healthCheckDone |-> FALSE, seen |-> 0, late |-> 0]

noReader == [st |-> "none", ch |-> 0, msg |-> NoEvent, late |-> 0]

\* the command of startServiceIntelligent: cmds are the containers a start
\* command was issued for, in order; running those isContainerRunning
\* reported as running; waits how each waitForHealth ended; info what the
\* latest inspection of waitForHealth returned.  The record also follows the
\* command a key started: intent is the key's meaning, stopped the
\* containers `docker stop` was run for, result the message returned,
\* seenChan the value of startupProgressChan when the key was pressed, text
\* the text of the statusMsg the command built for its outcome, calls the
\* compose commands it ran
idleIntel ==
    [pc |-> "idle", target |-> "", dep |-> 0, elapsed |-> 0, cmds |-> <<>>,
     running |-> {}, waits |-> <<>>, result |-> "", info |-> getContainerInfo(ObsAbsent),
     intent |-> "", stopped |-> <<>>, seenChan |-> 0, text |-> "", calls |-> <<>>]

\* the keys progress events are stored under; an absent key holds NoEvent
ProgressKeys == DisplayNames \cup {"System"}

\* make(map[string]startupProgress)
emptyProgress == [n \in ProgressKeys |-> NoEvent]

\* m.services, in the order of the list on screen
serviceList == <<"Ollama", "FalkorDB", "Graphiti MCP", "Atlas Engine", "Atlas Dashboard">>

\* one row of m.services; obs tells what the runtime answered when the row
\* was refreshed and is not a field of the program
service(name, status, health, obs) ==
    [name |-> name, status |-> status, health |-> health, obs |-> obs]

\* the services of initialModel: no status yet
initialServices == [k \in 1..Len(serviceList) |-> service(serviceList[k], "", "", ObsAbsent)]

\* What a specification limits its behaviours to.  One run: any consumer
\* lag the channel allows, up to MaxDeviations deviations.
OneRun ==
    [runs |-> 1, deviations |-> MaxDeviations, backlog |-> BusCapacity, late |-> 0,
     poll |-> ObsHealthy, keys |-> FALSE, clock |-> FALSE]

\* One run with the UI consuming each event before the next is sent, for
\* the behaviours in which other keys and ticks interleave with the run.
Lockstep ==
    [runs |-> 1, deviations |-> MaxKeyDeviations, backlog |-> 1, late |-> 0,
     poll |-> ObsHealthy, keys |-> TRUE, clock |-> FALSE]

\* Overlapping runs: 's' pressed up to MaxRuns times at any moment, on a
\* nominal runtime, the goroutines at most MaxBacklog events ahead of the
\* consumer, an earlier run's goroutine and reads taking MaxLateSteps more
\* steps once a later run has started.
Overlapping ==
    [runs |-> MaxRuns, deviations |-> 0, backlog |-> MaxBacklog, late |-> MaxLateSteps,
     poll |-> ObsHealthy, keys |-> FALSE, clock |-> FALSE]

\* One run against containers that never get ready: every inspection of the
\* health wait answers o, every other driver call is nominal and immediate.
Stuck(o) ==
    [runs |-> 1, deviations |-> 0, backlog |-> BusCapacity, late |-> 0, poll |-> o,
     keys |-> FALSE, clock |-> FALSE]

\* initialModel and the zero values of the globals
Start(lim) ==
    /\ startupInProgress = FALSE
    /\ startupProgress = emptyProgress
    /\ startupLogs = <<>>
    /\ startupProgressChan = 0
    /\ chans = [c \in Runs |-> [q |-> <<>>, closed |-> FALSE]]
    /\ eng = [g \in Runs |-> idleEngine]
    /\ readers = [k \in Runs |-> noReader]
    /\ cmds = {"checkServices", "updateStats", "updateContainerStats", "tick"}
    /\ panicked = FALSE
    /\ deviations = 0
    /\ limits = lim
    /\ trace = [g \in Runs |-> <<>>]
    /\ intel = idleIntel
    /\ statusMsg = "Ready"
    /\ modelServices = initialServices
    /\ applied = <<>>
    /\ ticks = TimersStarted(cmds)
    /\ listView = Mounted("AnomaliesView")

Init == Start(OneRun)

InitOverlap == Start(Overlapping)

InitUI == Start(Lockstep)

InitStuck == \E o \in {ObsAbsent, ObsStarting} : Start(Stuck(o))

(* ------------------------ environment choices ------------------------- *)

\* The results a driver call may return, each with the deviation count
\* after it: the nominal result is free, every other one costs a deviation.
\* The nominal answer of an inspection during a health wait is limits.poll.
Pick(nominal, others, used) ==
    {<<nominal, used>>} \cup
    (IF used < limits.deviations THEN {<<o, used + 1>> : o \in others \ {nominal}} ELSE {})

\* `docker-compose ...` run whatever `docker compose ...` returned
secondSpellingAlways(first, used) == Pick("ok", {"fail"}, used)

\* if err := cmd.Run(); err != nil { cmd = exec.Command("docker-compose", ...) }:
\* the second spelling is run when the first returned an error
secondSpelling(first, used) ==
    IF first = "ok" THEN {<<"none", used>>} ELSE Pick("ok", {"fail"}, used)

\* one compose command of a key's command or of startServiceIntelligent:
\* what each spelling returned ("none" when it was not run), and the
\* deviation count after it
Compose(used) ==
    UNION {{<<first[1], second[1], second[2]>> : second \in secondSpelling(first[1], first[2])} :
              first \in Pick("ok", {"fail"}, used)}

\* err != nil of the first spelling and err != nil of the second
composeFailed(c) == c[1] # "ok" /\ c[2] = "fail"

\* the compose command as recorded in intel.calls; shown is the spelling
\* whose error the returned statusMsg carries
Call(cmd, containerName, c) ==
    [cmd |-> cmd, name |-> containerName, first |-> c[1], second |-> c[2],
     shown |-> IF composeFailed(c) THEN "docker-compose" ELSE "none"]

(* ------------------------------ the bus ------------------------------- *)

\* The channel a goroutine operates on: it loads the global at some moment
\* between its previous channel operation and this one, so it gets any
\* value the variable held in that interval.
LoadChan(g) == eng[g].seen .. startupProgressChan

\* a goroutine whose channel was replaced takes at most MaxLateSteps steps
MayStep(g) == g = startupProgressChan \/ eng[g].late < limits.late

\* the goroutine's record after a step
Stepped(g, e2) ==
    [e2 EXCEPT !.seen = startupProgressChan,
               !.late = IF g = startupProgressChan THEN 0 ELSE e2.late + 1]

\* the sends the goroutines have done so far
SendCount ==
    LET RECURSIVE Sum(_)
        Sum(S) == IF S = {} THEN 0
                  ELSE LET g == CHOOSE x \in S : TRUE
                       IN  Cardinality({k \in 1..Len(trace[g]) : trace[g][k].op = "send"})
                              + Sum(S \ {g})
    IN  Sum(Runs)

\* the event as it is put on a channel
Numbered(ev) == [ev EXCEPT !.seq = SendCount + 1]

\* startupProgressChan <- ev by goroutine g, after the driver calls ops; the
\* goroutine continues as e2.  A send on a closed channel panics, a send on
\* a full buffer blocks.
Send(g, ev, e2, ops, used) ==
    \E c \in LoadChan(g) :
        /\ MayStep(g)
        /\ deviations' = used
        /\ IF chans[c].closed
           THEN /\ panicked' = TRUE
                /\ trace' = [trace EXCEPT ![g] = @ \o ops]
                /\ UNCHANGED <<chans, eng>>
           ELSE /\ Len(chans[c].q) < Min(BusCapacity, limits.backlog)
                /\ chans' = [chans EXCEPT ![c].q = Append(@, Numbered(ev))]
                /\ eng' = [eng EXCEPT ![g] = Stepped(g, e2)]
                /\ trace' = [trace EXCEPT ![g] = @ \o ops \o <<Op("send", c, Numbered(ev))>>]
                /\ UNCHANGED panicked

\* the goroutine goes on without a channel operation
Step(g, e2, ops, used) ==
    /\ MayStep(g)
    /\ deviations' = used
    /\ eng' = [eng EXCEPT ![g] = [e2 EXCEPT !.late = IF g = startupProgressChan THEN 0
                                                       ELSE e2.late + 1]]
    /\ trace' = [trace EXCEPT ![g] = @ \o ops]
    /\ UNCHANGED <<chans, panicked>>

(* ------------------------- progress arithmetic ------------------------ *)

\* the longer wait of ollama given to every service
maxWaitOllamaForAll(containerName) == MaxWaitOllama

maxWait(containerName) == IF containerName = "ollama" THEN MaxWaitOllama ELSE MaxWaitDefault

\* float64(i) / float64(total)
baseProgress(i) == (Scale * i) \div total

\* 0.05 without the base of the slot
startingProgressWithoutBase(i) == Scale \div 20

\* baseProgress + 0.05
startingProgress(i) == baseProgress(i) + Scale \div 20

\* (float64(i) + 0.6) / float64(total)
waitingProgress(i) == (Scale * (10 * i + 6)) \div (10 * total)

\* float64(i+1) / float64(total)
terminalProgress(i) == (Scale * (i + 1)) \div total

\* the same value without the clamp to (i+1)/total
currentProgressUnclamped(i, elapsed, mw) ==
    (Scale * ((10 * i + 6) * mw + 3 * elapsed)) \div (10 * mw * total)

\* (float64(i) + 0.6 + elapsed/maxWait*0.3) / float64(total), clamped
currentProgress(i, elapsed, mw) ==
    Min((Scale * ((10 * i + 6) * mw + 3 * elapsed)) \div (10 * mw * total),
        terminalProgress(i))

(* ------------------ the goroutine of startServicesWithProgress -------- *)

\* after the body of the service loop for index i: the next service, or
\* the close after the loop
nextService(e) ==
    IF e.i + 1 < total
    THEN [e EXCEPT !.pc = "starting", !.i = e.i + 1, !.logs = <<>>, !.elapsed = 0,
                   !.lastUpdate = 0, !.healthCheckDone = FALSE]
    ELSE [e EXCEPT !.pc = "close", !.logs = <<>>, !.elapsed = 0,
                   !.lastUpdate = 0, !.healthCheckDone = FALSE]

\* an already-running service followed by the health wait all the same
alreadyRunningThenWait(e) == [e EXCEPT !.pc = "poll"]

\* the `continue` after the "Already running" event
alreadyRunningContinue(e) == nextService(e)

\* a failed start that ends the service loop
startFailedBreak(e) == [e EXCEPT !.pc = "close"]

\* the `continue` after the "failed" event
startFailedContinue(e) == nextService(e)

\* the first send of the goroutine: "Checking Docker status..."
EngineSystem(g) ==
    /\ ~panicked
    /\ eng[g].pc = "system"
    /\ Send(g, progressMsg(g, "System", "starting", 0, <<"checking_docker">>),
            [eng[g] EXCEPT !.pc = "preflight"], <<>>, deviations)
    /\ UNCHANGED <<uiVars, startupProgressChan, readers, limits, intel>>

\* a failed preflight check after which the service loop is entered
preflightFailedGoesOn(e) == [e EXCEPT !.pc = "starting", !.i = 0]

\* close(startupProgressChan); return after the failed "System" event
preflightFailedReturn(e) == [e EXCEPT !.pc = "close"]

\* `docker ps` and the docker-compose.yml check
EnginePreflight(g) ==
    /\ ~panicked
    /\ eng[g].pc = "preflight"
    /\ \E r \in Pick("ok", {"docker_down", "compose_missing"}, deviations) :
          IF r[1] = "ok"
          THEN Step(g, [eng[g] EXCEPT !.pc = "starting", !.i = 0],
                    <<DriverOp("preflight", "")>>, r[2])
          ELSE Send(g, progressMsg(g, "System", "failed", 0, <<r[1]>>),
                    preflightFailedReturn(eng[g]),
                    <<DriverOp("preflight", "")>>, r[2])
    /\ UNCHANGED <<uiVars, startupProgressChan, readers, limits, intel>>

\* the "starting" event of services[i]
EngineStarting(g) ==
    /\ ~panicked
    /\ eng[g].pc = "starting"
    /\ LET i == eng[g].i
           displayName == getServiceDisplayName(services[i + 1])
       IN  Send(g, progressMsg(g, displayName, "starting", startingProgress(i),
                               <<"starting_service">>),
                [eng[g] EXCEPT !.pc = "start"], <<>>, deviations)
    /\ UNCHANGED <<uiVars, startupProgressChan, readers, limits, intel>>

\* the log lines of a failed second spelling: the error, the output when
\* the command printed any, the exit code when it ran and exited non-zero
failureLogs(logs, err2) ==
    logs \o <<"error_starting">> \o
    (IF err2 = "exit" THEN <<"error_output", "exit_code">> ELSE <<>>)

\* the log lines after `docker compose up -d`: which spelling started the
\* service, and the output of the command
startedLogs(first) ==
    IF first = "ok"
    THEN <<"running_cmd", "started_docker_compose", "command_output">>
    ELSE <<"running_cmd", "fallback_try", "started_docker-compose", "command_output">>

\* the inspection two seconds after the start command
afterStartLogs(logs, found) ==
    CASE found = "running" -> Append(logs, "container_running")
      [] found = "absent" -> Append(logs, "not_found_after_start")
      [] OTHER -> logs \o <<"not_found_after_start", "container_logs">>

\* the driver calls of one pass through the start of a service, as trace
\* entries: the already-running check, then each spelling that was run
startOps(serviceName, first, second) ==
    <<DriverOp("not running", serviceName)>> \o
    (IF first = "ok" THEN <<DriverOp("docker compose: ok", serviceName)>>
     ELSE <<DriverOp("docker compose: error", serviceName),
            DriverOp(IF second = "ok" THEN "docker-compose: ok" ELSE "docker-compose: error",
                     serviceName)>>)

\* the goroutine entering the health wait, with the "waiting_health" event
EnterWait(g, first, found, used) ==
    LET i == eng[g].i
        serviceName == services[i + 1]
        logs == afterStartLogs(startedLogs(first), found)
    IN  Send(g, progressMsg(g, getServiceDisplayName(serviceName), "waiting_health",
                            waitingProgress(i), logs),
             [eng[g] EXCEPT !.pc = "poll", !.elapsed = 0, !.lastUpdate = 0,
                            !.healthCheckDone = FALSE, !.logs = logs],
             startOps(serviceName, first, "ok") \o <<DriverOp("inspect", serviceName)>>, used)

\* from the already-running check to the next send: "completed" (already
\* running), "failed" (both spellings failed) or "waiting_health"
EngineStart(g) ==
    /\ ~panicked
    /\ eng[g].pc = "start"
    /\ LET i == eng[g].i
           serviceName == services[i + 1]
           displayName == getServiceDisplayName(serviceName)
       IN  \E o \in Pick(ObsAbsent, {ObsUp, ObsPsError}, deviations) :
             IF isContainerRunning(o[1])
             THEN Send(g, progressMsg(g, displayName, "completed", terminalProgress(i),
                                      <<"already_running">>),
                       alreadyRunningContinue(eng[g]),
                       <<DriverOp("running", serviceName)>>, o[2])
             ELSE
               \E first \in Pick("ok", {"fail"}, o[2]) :
                 IF first[1] = "ok"
                 THEN \E found \in Pick("running", {"absent", "exited"}, first[2]) :
                        EnterWait(g, "ok", found[1], found[2])
                 ELSE \E second \in Pick("ok", {"not_found", "exit"}, first[2]) :
                        IF second[1] # "ok"
                        THEN Send(g, progressMsg(g, displayName, "failed", terminalProgress(i),
                                                 failureLogs(<<"running_cmd", "fallback_try">>,
                                                             second[1])),
                                  startFailedContinue(eng[g]),
                                  startOps(serviceName, "fail", second[1]), second[2])
                        ELSE \E found \in Pick("running", {"absent", "exited"}, second[2]) :
                               EnterWait(g, "fail", found[1], found[2])
    /\ UNCHANGED <<uiVars, startupProgressChan, readers, limits, intel>>

\* the goroutine after one iteration of the health-wait loop, the sleep
\* included: back to the loop test, which sends it to the final status
\* when maxWait has elapsed
afterSleep(e, now, mw) ==
    [e EXCEPT !.elapsed = now + CheckInterval,
              !.pc = IF now + CheckInterval < mw THEN "poll" ELSE "final"]

\* the trace entry of an inspection in a health wait: what it reported
pollOp(info) ==
    IF ~info.running THEN "poll: not running"
    ELSE CASE info.health = "healthy" -> "poll: healthy"
           [] info.health = "running" -> "poll: running"
           [] info.health = "unhealthy" -> "poll: unhealthy"
           [] OTHER -> "poll: unknown"

\* one iteration of the health-wait loop
EnginePoll(g) ==
    /\ ~panicked
    /\ eng[g].pc = "poll"
    /\ LET i == eng[g].i
           serviceName == services[i + 1]
           displayName == getServiceDisplayName(serviceName)
           mw == maxWait(serviceName)
       IN  \E lat \in Pick(0, {SlowCall}, deviations) :
           \E o \in Pick(limits.poll, Observations, lat[2]) :
             LET info == getContainerInfo(o[1])
                 now == eng[g].elapsed + lat[1]
                 ops == <<DriverOp(pollOp(info), serviceName)>>
             IN  IF info.running
                 THEN IF healthReady(info)
                      THEN Step(g, [eng[g] EXCEPT !.pc = "final", !.healthCheckDone = TRUE,
                                                  !.elapsed = now,
                                                  !.logs = Append(@, "healthy")],
                                ops, o[2])
                      ELSE IF now - eng[g].lastUpdate >= UpdateEvery
                           THEN Send(g, progressMsg(g, displayName, "waiting_health",
                                                    currentProgress(i, now, mw),
                                                    <<"waiting_for_health">>),
                                     afterSleep([eng[g] EXCEPT !.lastUpdate = now], now, mw),
                                     ops, o[2])
                           ELSE Step(g, afterSleep(eng[g], now, mw), ops, o[2])
                 ELSE Step(g, afterSleep([eng[g] EXCEPT !.logs = Append(@, "not_running_yet")],
                                         now, mw),
                           ops, o[2])
    /\ UNCHANGED <<uiVars, startupProgressChan, readers, limits, intel>>

\* the log line added after a wait that ended without a healthy report
finalLogs(e, info) ==
    IF e.healthCheckDone THEN e.logs
    ELSE IF info.running THEN Append(e.logs, "wait_exceeded")
         ELSE Append(e.logs, "may_not_be_started")

\* the trace entry of the final inspection: after a wait that ended by
\* timeout, whether the container was running
finalOp(e, info) ==
    IF e.healthCheckDone THEN "inspect"
    ELSE IF info.running THEN "timeout: running" ELSE "timeout: not running"

\* the final inspection and the terminal event of a started service
EngineFinal(g) ==
    /\ ~panicked
    /\ eng[g].pc = "final"
    /\ LET i == eng[g].i
           serviceName == services[i + 1]
           displayName == getServiceDisplayName(serviceName)
       IN  \E o \in (IF eng[g].healthCheckDone
                     THEN {<<ObsHealthy, deviations>>}
                     ELSE Pick(limits.poll, {ObsHealthy, ObsAbsent}, deviations)) :
             Send(g, progressMsg(g, displayName, "completed", terminalProgress(i),
                                 finalLogs(eng[g], getContainerInfo(o[1]))),
                  nextService(eng[g]),
                  <<DriverOp(finalOp(eng[g], getContainerInfo(o[1])), serviceName)>>, o[2])
    /\ UNCHANGED <<uiVars, startupProgressChan, readers, limits, intel>>

\* close(startupProgressChan): closing a closed channel panics
EngineClose(g) ==
    /\ ~panicked
    /\ eng[g].pc = "close"
    /\ MayStep(g)
    /\ \E c \in LoadChan(g) :
          IF chans[c].closed
          THEN /\ panicked' = TRUE
               /\ UNCHANGED <<chans, eng, trace>>
          ELSE /\ chans' = [chans EXCEPT ![c].closed = TRUE]
               /\ eng' = [eng EXCEPT ![g] = Stepped(g, [eng[g] EXCEPT !.pc = "done"])]
               /\ trace' = [trace EXCEPT ![g] = Append(@, Op("close", c, NoEvent))]
               /\ UNCHANGED panicked
    /\ UNCHANGED <<uiVars, startupProgressChan, readers, deviations, limits, intel>>

(* ------------------------ startServiceIntelligent --------------------- *)

\* the closure starts: the container name is looked up
IntelBegin ==
    /\ intel.pc = "begin"
    /\ intel' = IF getContainerName(intel.target) = ""
                THEN [intel EXCEPT !.pc = "done", !.result = "unknown service"]
                ELSE [intel EXCEPT !.pc = "deps", !.dep = 1]
    /\ UNCHANGED <<uiVars, startupProgressChan, chans, eng, readers, panicked, deviations,
                   limits, trace>>

\* after the body of the dependency loop: the next dependency, or the
\* start of the service itself
nextDependency(t) ==
    IF t.dep < Len(dependencies(getContainerName(t.target)))
    THEN [t EXCEPT !.pc = "deps", !.dep = t.dep + 1, !.elapsed = 0]
    ELSE [t EXCEPT !.pc = "target", !.elapsed = 0]

\* one dependency: skipped when it runs, else started with the first
\* spelling and on error with the second; a second error ends the command
IntelDependency ==
    /\ intel.pc = "deps"
    /\ LET deps == dependencies(getContainerName(intel.target))
       IN  IF intel.dep > Len(deps)
           THEN /\ intel' = [intel EXCEPT !.pc = "target"]
                /\ UNCHANGED deviations
           ELSE LET dep == deps[intel.dep]
                IN  \E o \in Pick(ObsAbsent, {ObsUp, ObsPsError}, deviations) :
                      IF isContainerRunning(o[1])
                      THEN /\ intel' = nextDependency([intel EXCEPT !.running = @ \cup {dep}])
                           /\ deviations' = o[2]
                      ELSE \E c \in Compose(o[2]) :
                             LET t == [intel EXCEPT !.cmds = Append(@, dep),
                                                    !.calls = Append(@, Call("up", dep, c))]
                             IN  /\ deviations' = c[3]
                                 /\ intel' = IF composeFailed(c)
                                             THEN [t EXCEPT !.pc = "done",
                                                            !.result = "failed to start dependency",
                                                            !.text = "Failed to start dependency"]
                                             ELSE [t EXCEPT !.pc = "wait", !.elapsed = 0]
    /\ UNCHANGED <<uiVars, startupProgressChan, chans, eng, readers, panicked, limits, trace>>

\* the return test of waitForHealth
waitReady(info) == info.running /\ info.health = "healthy"

\* one iteration of waitForHealth(dep, 60*time.Second)
IntelWait ==
    /\ intel.pc = "wait"
    /\ LET dep == dependencies(getContainerName(intel.target))[intel.dep]
       IN  \E lat \in Pick(0, {SlowCall}, deviations) :
           \E o \in Pick(limits.poll, Observations, lat[2]) :
             LET now == intel.elapsed + lat[1]
                 polled == [intel EXCEPT !.info = getContainerInfo(o[1])]
             IN  /\ deviations' = o[2]
                 /\ intel' =
                      IF waitReady(getContainerInfo(o[1]))
                      THEN nextDependency([polled EXCEPT
                               !.waits = Append(@, [dep |-> dep, ended |-> "healthy",
                                                    elapsed |-> now])])
                      ELSE IF now + DepPollInterval < DepTimeout
                           THEN [polled EXCEPT !.elapsed = now + DepPollInterval]
                           ELSE nextDependency([polled EXCEPT
                                    !.waits = Append(@, [dep |-> dep, ended |-> "timeout",
                                                         elapsed |-> now + DepPollInterval])])
    /\ UNCHANGED <<uiVars, startupProgressChan, chans, eng, readers, panicked, limits, trace>>

\* the start command of the service itself, both spellings
IntelTarget ==
    /\ intel.pc = "target"
    /\ \E c \in Compose(deviations) :
         /\ deviations' = c[3]
         /\ intel' = [intel EXCEPT !.pc = "done",
                                   !.cmds = Append(@, getContainerName(intel.target)),
                                   !.calls = Append(@, Call("up", getContainerName(intel.target), c)),
                                   !.result = IF composeFailed(c) THEN "failed to start"
                                              ELSE "started",
                                   !.text = IF composeFailed(c) THEN "Failed to start"
                                            ELSE "started"]
    /\ UNCHANGED <<uiVars, startupProgressChan, chans, eng, readers, panicked, limits, trace>>

(* ----------------------------- the UI loop --------------------------- *)

\* Update, case "s", with the synchronous part of startServicesWithProgress:
\* a new channel is stored in the global, the goroutine is started, and the
\* first read command and the status command are returned
PressS ==
    /\ ~panicked
    /\ startupProgressChan < limits.runs
    /\ LET c == startupProgressChan + 1
       IN  /\ startupInProgress' = TRUE
           /\ startupProgress' = emptyProgress
           /\ startupLogs' = <<"initializing">>
           /\ startupProgressChan' = c
           /\ eng' = [eng EXCEPT ![c] = [idleEngine EXCEPT !.pc = "system", !.seen = c]]
           /\ readers' = [readers EXCEPT ![c] = [noReader EXCEPT !.st = "issued"]]
           /\ cmds' = {"readNextStartupProgress", "statusMsg: Starting all core services..."}
    /\ UNCHANGED listView
    /\ ticks' = ticks + TimersStarted(cmds')
    /\ UNCHANGED <<chans, panicked, deviations, limits, trace, intel, statusMsg,
                   modelServices, applied>>

\* a chain of reads of an earlier run takes at most limits.late steps
MayRead(k) == k = startupProgressChan \/ readers[k].late < limits.late

\* the read command's record after a step
Read(k, r2) == [r2 EXCEPT !.late = IF k = startupProgressChan THEN 0 ELSE readers[k].late + 1]

\* the closure returned by readNextStartupProgress starts to run: it loads
\* the global and blocks on that channel
ReaderBind(k) ==
    /\ ~panicked
    /\ readers[k].st = "issued"
    /\ MayRead(k)
    /\ readers' = [readers EXCEPT ![k] = Read(k, [@ EXCEPT !.st = "waiting",
                                                           !.ch = startupProgressChan])]
    /\ UNCHANGED <<uiVars, startupProgressChan, chans, eng, panicked, deviations, limits, trace, intel>>

\* msg, ok := <-startupProgressChan: the next buffered event, or nil once
\* the channel is closed and drained (a nil message changes nothing)
ReaderRecv(k) ==
    /\ ~panicked
    /\ readers[k].st = "waiting"
    /\ MayRead(k)
    /\ LET c == readers[k].ch
       IN  IF chans[c].q # <<>>
           THEN /\ readers' = [readers EXCEPT ![k] = Read(k, [@ EXCEPT !.st = "ready",
                                                                       !.msg = Head(chans[c].q)])]
                /\ chans' = [chans EXCEPT ![c].q = Tail(@)]
           ELSE /\ chans[c].closed
                /\ readers' = [readers EXCEPT ![k] = Read(k, noReader)]
                /\ UNCHANGED chans
    /\ UNCHANGED <<uiVars, startupProgressChan, eng, panicked, deviations, limits, trace, intel>>

\* an append that keeps the first 100 lines
appendLogsKeepFirst(logs, new) ==
    LET all == logs \o new
    IN  IF Len(all) > MaxStartupLogs THEN SubSeq(all, 1, MaxStartupLogs) ELSE all

\* append with "keep only last 100 lines"
appendLogs(logs, new) ==
    LET all == logs \o new
    IN  IF Len(all) > MaxStartupLogs
        THEN SubSeq(all, Len(all) - MaxStartupLogs + 1, Len(all))
        ELSE all

isTerminal(step) == step = "completed" \/ step = "failed"

\* number of entries of the map whose step is completed or failed
completedCount(sp) == Cardinality({n \in ProgressKeys : sp[n] # NoEvent /\ isTerminal(sp[n].step)})

\* no entry of the map has a step other than completed or failed
allCompleted(sp) == \A n \in ProgressKeys : sp[n] # NoEvent => isTerminal(sp[n].step)

\* the test that ends a run in Update
runFinished(sp) == completedCount(sp) >= RequiredTerminal /\ allCompleted(sp)

\* Update, case progressMsg
UpdateProgress(k) ==
    /\ ~panicked
    /\ readers[k].st = "ready"
    /\ MayRead(k)
    /\ LET msg == readers[k].msg
           sp == [startupProgress EXCEPT ![msg.serviceName] = msg]
       IN  /\ startupProgress' = sp
           /\ applied' = Append(applied, msg.seq)
           /\ startupLogs' = IF Len(msg.logs) > 0 THEN appendLogs(startupLogs, msg.logs)
                             ELSE startupLogs
           /\ IF startupInProgress
              THEN IF runFinished(sp)
                   THEN /\ startupInProgress' = FALSE
                        /\ cmds' = {"checkServices",
                                    "statusMsg: All services started successfully"}
                        /\ readers' = [readers EXCEPT ![k] = Read(k, noReader)]
                   ELSE /\ cmds' = {"readNextStartupProgress"}
                        /\ readers' = [readers EXCEPT
                                          ![k] = Read(k, [noReader EXCEPT !.st = "issued"])]
                        /\ UNCHANGED startupInProgress
              ELSE /\ cmds' = {}
                   /\ readers' = [readers EXCEPT ![k] = Read(k, noReader)]
                   /\ UNCHANGED startupInProgress
    /\ UNCHANGED listView
    /\ ticks' = ticks + TimersStarted(cmds')
    /\ UNCHANGED <<startupProgressChan, chans, eng, panicked, deviations, limits, trace, intel,
                   statusMsg, modelServices>>

(* --------------------------- keys and ticks --------------------------- *)

\* the rows below the services: Start All, Stop All, Build, Processing, Dashboard
MenuActions == 4

\* a batch that schedules no new tick
tickBatchWithoutTick(logsShown) ==
    {"updateStats", "updateContainerStats"} \cup (IF logsShown THEN {"fetchLogs"} ELSE {})

\* the commands of the batch of case tickMsg; fetchLogs is added in the logs
\* view when a service's log is shown
tickBatch(logsShown) ==
    {"updateStats", "tick", "updateContainerStats"}
       \cup (IF logsShown THEN {"fetchLogs"} ELSE {})

\* every entry of the map given a new elapsedTime, the finished ones too
tickElapsedOfAll(sp, reading) ==
    [n \in ProgressKeys |->
        IF sp[n] # NoEvent THEN [sp[n] EXCEPT !.elapsedTime = reading] ELSE sp[n]]

\* time.Since(m.startupStartTime) as a tick reads it; where the
\* specification does not follow the clock (limits.clock false) the ticks
\* fall at the instants at which it equals what the goroutine sent
tickReading == IF limits.clock THEN SinceStartupStart ELSE SinceOverallStart

\* the loop over m.startupProgress of case tickMsg: the entries whose step
\* is neither completed nor failed get a new elapsedTime
tickElapsed(sp, reading) ==
    [n \in ProgressKeys |->
        IF sp[n] # NoEvent /\ ~isTerminal(sp[n].step)
        THEN [sp[n] EXCEPT !.elapsedTime = reading]
        ELSE sp[n]]

\* Update, case tickMsg: the tickMsg of a timer is handled
UpdateTick ==
    /\ ~panicked
    /\ ticks > 0
    /\ \E logsShown \in BOOLEAN : cmds' = tickBatch(logsShown)
    /\ UNCHANGED listView
    /\ ticks' = ticks - 1 + TimersStarted(cmds')
    /\ startupProgress' = IF startupInProgress THEN tickElapsed(startupProgress, tickReading)
                          ELSE startupProgress
    /\ UNCHANGED <<startupInProgress, startupLogs, startupProgressChan,
                   chans, eng, readers, panicked, deviations, limits, trace, intel,
                   statusMsg, modelServices, applied>>

\* the command a key returned starts to run
Launch(intent, target, pc) ==
    [idleIntel EXCEPT !.pc = pc, !.intent = intent, !.target = target,
                      !.seenChan = startupProgressChan]

\* the commands of keys are followed one at a time
NoKeyCommand == intel.pc \in {"idle", "done"}

\* handleAction in the services view with row sel selected: the name of the
\* command returned, and the command
handleAction(sel) ==
    IF sel < Len(serviceList)
    THEN <<"toggleService", Launch("toggle", serviceList[sel + 1], "toggleService")>>
    ELSE CASE sel - Len(serviceList) = 0 ->
                <<"startServices", Launch("start all", "", "startServices")>>
           [] sel - Len(serviceList) = 1 ->
                <<"stopServices", Launch("stop all", "", "stopServices")>>
           [] sel - Len(serviceList) = 2 ->
                <<"buildServices", Launch("build", "", "buildServices")>>
           [] sel - Len(serviceList) = 3 ->
                <<"startProcessing", Launch("processing", "Atlas Engine", "startProcessing")>>
           [] OTHER ->
                <<"startDashboard", Launch("dashboard", "Atlas Dashboard", "startDashboard")>>

\* Update for a key that returns one command: the model is left as it is
KeyCommand(name, command) ==
    /\ ~panicked
    /\ limits.keys
    /\ NoKeyCommand
    /\ cmds' = {name}
    /\ UNCHANGED listView
    /\ ticks' = ticks + TimersStarted(cmds')
    /\ intel' = command
    /\ UNCHANGED <<startupInProgress, startupProgress, startupLogs, startupProgressChan,
                   chans, eng, readers, panicked, deviations, limits, trace, statusMsg,
                   modelServices, applied>>

\* Update, case "enter": return m, m.handleAction()
KeyEnter(sel) == KeyCommand(handleAction(sel)[1], handleAction(sel)[2])

\* Update, case "p": return m, startProcessing()
KeyP == KeyCommand("startProcessing", Launch("processing", "Atlas Engine", "startProcessing"))

\* Update, case "d": return m, startDashboard()
KeyD == KeyCommand("startDashboard", Launch("dashboard", "Atlas Dashboard", "startDashboard"))

\* Update, case "x": return m, stopServices()
KeyX == KeyCommand("stopServices", Launch("stop all", "", "stopServices"))

\* Update, case "b": return m, buildServices()
KeyB == KeyCommand("buildServices", Launch("build", "", "buildServices"))

\* Update, case "R" in the services view with the service of row sel selected
KeyRestart(sel) ==
    /\ sel < Len(serviceList)
    /\ KeyCommand("restartService", Launch("restart", serviceList[sel + 1], "restartService"))

\* The command ends and hands its return value to the runtime as a message:
\* msg is "statusMsg", or "tea.Cmd" when the closure returns a command (the
\* value of tea.Batch(...) or of startServiceIntelligent(name)) instead of
\* running it; text is the text of the statusMsg, returned or put into the
\* batch
Return(t, msg, text) == [t EXCEPT !.pc = "msg", !.result = msg, !.text = text]

\* the closure of toggleService
ToggleService ==
    /\ intel.pc = "toggleService"
    /\ LET containerName == getContainerName(intel.target)
       IN  IF containerName = ""
           THEN /\ intel' = Return(intel, "statusMsg", "Unknown service")
                /\ UNCHANGED deviations
           ELSE \E o \in Pick(ObsAbsent, {ObsUp, ObsPsError}, deviations) :
                  IF isContainerRunning(o[1])
                  THEN \E stop \in Pick("ok", {"fail"}, o[2]) :
                         LET t == [intel EXCEPT !.running = {containerName},
                                                !.stopped = Append(@, containerName)]
                         IN  /\ deviations' = stop[2]
                             /\ intel' = IF stop[1] = "ok" THEN Return(t, "tea.Cmd", "stopped")
                                         ELSE Return(t, "statusMsg", "Failed to stop")
                  ELSE /\ deviations' = o[2]
                       /\ intel' = Return(intel, "tea.Cmd", "")
    /\ UNCHANGED <<uiVars, startupProgressChan, chans, eng, readers, panicked, limits, trace>>

\* the closure of startServices: it returns the value of tea.Batch(...)
StartServices ==
    /\ intel.pc = "startServices"
    /\ intel' = Return(intel, "tea.Cmd", "Starting core services (FalkorDB, Ollama)...")
    /\ UNCHANGED <<uiVars, startupProgressChan, chans, eng, readers, panicked, deviations,
                   limits, trace>>

\* the closure of stopServices
StopServices ==
    /\ intel.pc = "stopServices"
    /\ \E down \in Compose(deviations) :
         LET t == [intel EXCEPT !.calls = Append(@, Call("down", "", down))]
         IN  /\ deviations' = down[3]
             /\ intel' = IF composeFailed(down)
                         THEN Return(t, "statusMsg", "Failed to stop services")
                         ELSE Return(t, "tea.Cmd", "Services stopped")
    /\ UNCHANGED <<uiVars, startupProgressChan, chans, eng, readers, panicked, limits, trace>>

\* the closure of buildServices: `build`, then `up -d`
BuildServices ==
    /\ intel.pc = "buildServices"
    /\ \E build \in Compose(deviations) :
         LET built == [intel EXCEPT !.calls = Append(@, Call("build", "", build))]
         IN  IF composeFailed(build)
             THEN /\ deviations' = build[3]
                  /\ intel' = Return(built, "statusMsg", "Failed to build services")
             ELSE \E up \in Compose(build[3]) :
                    LET t == [built EXCEPT !.calls = Append(@, Call("up", "", up))]
                    IN  /\ deviations' = up[3]
                        /\ intel' = IF composeFailed(up)
                                    THEN Return(t, "statusMsg", "Failed to start services")
                                    ELSE Return(t, "tea.Cmd", "Services built and started")
    /\ UNCHANGED <<uiVars, startupProgressChan, chans, eng, readers, panicked, limits, trace>>

\* the closure of restartService
RestartService ==
    /\ intel.pc = "restartService"
    /\ IF getContainerName(intel.target) = ""
       THEN /\ intel' = Return(intel, "statusMsg", "Unknown service")
            /\ UNCHANGED deviations
       ELSE \E restart \in Pick("ok", {"fail"}, deviations) :
              /\ deviations' = restart[2]
              /\ intel' = IF restart[1] = "ok" THEN Return(intel, "tea.Cmd", "restarted")
                          ELSE Return(intel, "statusMsg", "Failed to restart")
    /\ UNCHANGED <<uiVars, startupProgressChan, chans, eng, readers, panicked, limits, trace>>

\* the texts of startProcessing and startDashboard
profileText(containerName, outcome) ==
    IF containerName = "atlas-engine"
    THEN CASE outcome = "dependencies" -> "Starting dependencies for processing..."
           [] outcome = "start failed" -> "Failed to start Atlas Engine"
           [] outcome = "not running" -> "Atlas Engine container failed to start"
           [] OTHER -> "Processing pipeline started"
    ELSE CASE outcome = "dependencies" -> "Starting dependencies for dashboard..."
           [] outcome = "build failed" -> "Failed to build dashboard"
           [] outcome = "start failed" -> "Failed to start dashboard"
           [] OTHER -> "Dashboard started"

\* the closures of startProcessing and startDashboard: when graphiti-mcp or
\* falkordb is not running they return a batch that holds
\* startServiceIntelligent("Graphiti MCP"); else they build (the dashboard
\* only) and start the container with its profile, in both spellings, and
\* check that it runs (the engine only)
StartWithProfile(pc, containerName, builds, verifies) ==
    /\ intel.pc = pc
    /\ \E mcp \in Pick(ObsAbsent, {ObsUp}, deviations) :
         IF ~isContainerRunning(mcp[1])
         THEN /\ deviations' = mcp[2]
              /\ intel' = Return(intel, "tea.Cmd", profileText(containerName, "dependencies"))
         ELSE \E db \in Pick(ObsAbsent, {ObsUp}, mcp[2]) :
                IF ~isContainerRunning(db[1])
                THEN /\ deviations' = db[2]
                     /\ intel' = Return(intel, "tea.Cmd",
                                        profileText(containerName, "dependencies"))
                ELSE \E build \in (IF builds THEN Compose(db[2])
                                   ELSE {<<"ok", "none", db[2]>>}) :
                     LET seen == [intel EXCEPT
                                     !.running = {"graphiti-mcp", "falkordb"},
                                     !.calls = IF builds
                                               THEN Append(@, Call("build", containerName, build))
                                               ELSE @]
                     IN  IF composeFailed(build)
                         THEN /\ deviations' = build[3]
                              /\ intel' = Return(seen, "statusMsg",
                                                 profileText(containerName, "build failed"))
                         ELSE \E up \in Compose(build[3]) :
                              \E found \in (IF verifies /\ ~composeFailed(up)
                                            THEN Pick(ObsUp, {ObsAbsent}, up[3])
                                            ELSE {<<ObsUp, up[3]>>}) :
                                LET started == [seen EXCEPT
                                                   !.cmds = Append(@, containerName),
                                                   !.calls = Append(@, Call("up", containerName, up))]
                                IN  /\ deviations' = found[2]
                                    /\ intel' =
                                         IF composeFailed(up)
                                         THEN Return(started, "statusMsg",
                                                     profileText(containerName, "start failed"))
                                         ELSE IF ~isContainerRunning(found[1])
                                              THEN Return(started, "statusMsg",
                                                          profileText(containerName, "not running"))
                                              ELSE Return(started, "tea.Cmd",
                                                          profileText(containerName, "started"))
    /\ UNCHANGED <<uiVars, startupProgressChan, chans, eng, readers, panicked, limits, trace>>

StartProcessing == StartWithProfile("startProcessing", "atlas-engine", FALSE, TRUE)

StartDashboard == StartWithProfile("startDashboard", "atlas-dashboard", TRUE, FALSE)

\* The runtime hands the returned message to Update.  A statusMsg sets the
\* status line; a tea.Cmd value matches no case of the switch, so Update
\* returns m, nil and the commands inside the value are never run.
UpdateMsg ==
    /\ ~panicked
    /\ intel.pc = "msg"
    /\ intel' = [intel EXCEPT !.pc = "done"]
    /\ statusMsg' = IF intel.result = "statusMsg" THEN intel.text ELSE statusMsg
    /\ cmds' = {}
    /\ UNCHANGED listView
    /\ ticks' = ticks + TimersStarted(cmds')
    /\ UNCHANGED <<startupInProgress, startupProgress, startupLogs, startupProgressChan,
                   chans, eng, readers, panicked, deviations, limits, trace, modelServices,
                   applied>>

(* ------------------------- the services refresh ----------------------- *)

\* what the runtime answers for the first n rows of the list, with the
\* deviation count after them: a container that is not there is nominal
RECURSIVE Inspections(_, _)
Inspections(n, used) ==
    IF n = 0 THEN {<<<<>>, used>>}
    ELSE UNION {{<<Append(w[1], o[1]), o[2]>> : o \in Pick(ObsAbsent, Observations, w[2])} :
                   w \in Inspections(n - 1, used)}

\* the closure of checkServices, the runtime answering world[k] for row k
checkServices(world) ==
    [k \in 1..Len(serviceList) |->
        LET info == getContainerInfo(world[k])
        IN  IF getContainerName(serviceList[k]) = ""
            THEN service(serviceList[k], "", "", world[k])
            ELSE IF info.running
                 THEN service(serviceList[k], "running", info.health, world[k])
                 ELSE service(serviceList[k], "stopped", "", world[k])]

\* Update, case "r": return m, checkServices()
KeyR ==
    /\ ~panicked
    /\ cmds' = {"checkServices"}
    /\ UNCHANGED listView
    /\ ticks' = ticks + TimersStarted(cmds')
    /\ UNCHANGED <<startupInProgress, startupProgress, startupLogs, startupProgressChan,
                   chans, eng, readers, panicked, deviations, limits, trace, intel,
                   statusMsg, modelServices, applied>>

\* the checkServices command runs and Update, case []service, stores its
\* message in m.services
UpdateServices ==
    /\ ~panicked
    /\ "checkServices" \in cmds
    /\ \E w \in Inspections(Len(serviceList), deviations) :
          /\ modelServices' = checkServices(w[1])
          /\ deviations' = w[2]
    /\ cmds' = {}
    /\ UNCHANGED listView
    /\ ticks' = ticks + TimersStarted(cmds')
    /\ UNCHANGED <<startupInProgress, startupProgress, startupLogs, startupProgressChan,
                   chans, eng, readers, panicked, limits, trace, intel, statusMsg, applied>>

(* --------------------------- specifications --------------------------- *)

Next ==
    \/ PressS
    \/ \E g \in Runs : EngineSystem(g)
    \/ \E g \in Runs : EnginePreflight(g)
    \/ \E g \in Runs : EngineStarting(g)
    \/ \E g \in Runs : EngineStart(g)
    \/ \E g \in Runs : EnginePoll(g)
    \/ \E g \in Runs : EngineFinal(g)
    \/ \E g \in Runs : EngineClose(g)
    \/ \E k \in Runs : ReaderBind(k)
    \/ \E k \in Runs : ReaderRecv(k)
    \/ \E k \in Runs : UpdateProgress(k)

Spec == Init /\ [][Next]_vars

SpecOverlap == InitOverlap /\ [][Next]_vars

SpecStuck == InitStuck /\ [][Next]_vars

\* the keys that return a command, the commands, and their messages
NextKeys ==
    \/ \E sel \in 0..(Len(serviceList) + MenuActions) : KeyEnter(sel)
    \/ KeyP
    \/ KeyD
    \/ KeyX
    \/ KeyB
    \/ \E sel \in 0..(Len(serviceList) - 1) : KeyRestart(sel)
    \/ ToggleService
    \/ StartServices
    \/ StopServices
    \/ BuildServices
    \/ RestartService
    \/ StartProcessing
    \/ StartDashboard
    \/ UpdateMsg

\* the run together with the other keys and the periodic tick
NextUI ==
    \/ Next
    \/ UpdateTick
    \/ NextKeys

SpecUI == InitUI /\ [][NextUI]_vars

\* startServiceIntelligent(serviceName) run for each row of the service list
InitIntelligent ==
    /\ startupInProgress = FALSE
    /\ startupProgress = emptyProgress
    /\ startupLogs = <<>>
    /\ startupProgressChan = 0
    /\ chans = [c \in Runs |-> [q |-> <<>>, closed |-> FALSE]]
    /\ eng = [g \in Runs |-> idleEngine]
    /\ readers = [k \in Runs |-> noReader]
    /\ cmds = {}
    /\ panicked = FALSE
    /\ deviations = 0
    /\ \E o \in {ObsHealthy, ObsUp} :
          limits = [runs |-> 0, deviations |-> MaxDeviations, backlog |-> BusCapacity,
                    late |-> 0, poll |-> o, keys |-> FALSE, clock |-> FALSE]
    /\ trace = [g \in Runs |-> <<>>]
    /\ \E name \in ServiceNames : intel = [idleIntel EXCEPT !.pc = "begin", !.target = name]
    /\ statusMsg = "Ready"
    /\ modelServices = initialServices
    /\ applied = <<>>
    /\ ticks = TimersStarted(cmds)
    /\ listView = Mounted("AnomaliesView")

NextIntelligent ==
    \/ IntelBegin
    \/ IntelDependency
    \/ IntelWait
    \/ IntelTarget

SpecIntelligent == InitIntelligent /\ [][NextIntelligent]_vars

\* Keys only: no run, up to MaxCommandDeviations deviations.
KeysOnly ==
    [runs |-> 0, deviations |-> MaxCommandDeviations, backlog |-> 1, late |-> 0,
     poll |-> ObsHealthy, keys |-> TRUE, clock |-> FALSE]

\* One run with the UI consuming each event before the next is sent.
RunInStep ==
    [runs |-> 1, deviations |-> MaxDeviations, backlog |-> 1, late |-> 0,
     poll |-> ObsHealthy, keys |-> FALSE, clock |-> FALSE]

\* every command that runs compose: those of the keys, the progress run,
\* and startServiceIntelligent
InitCommands == Start(KeysOnly) \/ Start(RunInStep) \/ InitIntelligent

NextCommands ==
    \/ Next
    \/ NextKeys
    \/ NextIntelligent

SpecCommands == InitCommands /\ [][NextCommands]_vars

\* the refresh of the service list: at start and on 'r', with up to
\* MaxRefreshDeviations containers that are not simply absent
Refreshing ==
    [runs |-> 0, deviations |-> MaxRefreshDeviations, backlog |-> 1, late |-> 0,
     poll |-> ObsHealthy, keys |-> FALSE, clock |-> FALSE]

InitRefresh == Start(Refreshing)

NextRefresh ==
    \/ KeyR
    \/ UpdateServices

SpecRefresh == InitRefresh /\ [][NextRefresh]_vars

\* The messages of the UI on a nominal runtime: one run in lockstep with
\* the UI, every key, the refresh of the list, and the ticks, which fall
\* at any instant: the elapsedTime a tick writes is told apart from the one
\* the goroutine sent.
Ticking ==
    [runs |-> 1, deviations |-> 0, backlog |-> 1, late |-> 0, poll |-> ObsHealthy,
     keys |-> TRUE, clock |-> TRUE]

InitTicks == Start(Ticking)

NextTicks == NextUI \/ NextRefresh

SpecTicks == InitTicks /\ [][NextTicks]_vars

(* ------------------------ the dashboard's list views ----------------- *)

\* the records a query with the filters f matches: each field that is set
\* keeps a quarter of them
RECURSIVE Matching(_)
Matching(f) ==
    IF f = {} THEN MaxResults
    ELSE Matching(f \ {CHOOSE x \in f : TRUE}) \div 4

\* the response to /api/...?offset=..&limit=..&<filters>: the number of
\* matching records and the records of the slice asked for
response(offset, limit, f) ==
    [total |-> Matching(f),
     count |-> IF Matching(f) - offset < 0 THEN 0 ELSE Min(limit, Matching(f) - offset)]

\* data ? Math.ceil(data.total / ITEMS_PER_PAGE) : 0
totalPages(data) ==
    IF data = NoData THEN 0 ELSE (data.total + ITEMS_PER_PAGE - 1) \div ITEMS_PER_PAGE

\* the list with its header and filters is rendered: not the spinner, not
\* the "No ... found" screen
listShown(lv) == lv.data # NoData /\ lv.data.count > 0

\* totalPages > 1 && (...)
paginationShown(lv) == listShown(lv) /\ totalPages(lv.data) > 1

\* the query key changed: the view waits for the new response
Refetch(lv) == [lv EXCEPT !.data = NoData]

\* the state of the Go program, which the dashboard does not touch
programVars == <<startupInProgress, startupProgress, startupLogs, startupProgressChan,
                 chans, eng, readers, cmds, panicked, deviations, limits, trace, intel,
                 statusMsg, modelServices, applied, ticks>>

\* the query of the mounted view gets its response
QueryLoaded ==
    /\ listView.data = NoData
    /\ listView' = [listView EXCEPT !.data = response(listView.page * ITEMS_PER_PAGE,
                                                       ITEMS_PER_PAGE, listView.filters)]
    /\ UNCHANGED programVars

\* Previous: setPage((p) => Math.max(0, p - 1)), disabled on page 0
ClickPrevious ==
    /\ paginationShown(listView)
    /\ listView.page # 0
    /\ listView' = Refetch([listView EXCEPT !.page = IF @ - 1 < 0 THEN 0 ELSE @ - 1])
    /\ UNCHANGED programVars

\* Next: setPage((p) => Math.min(totalPages - 1, p + 1)), disabled on the
\* last page
ClickNext ==
    /\ paginationShown(listView)
    /\ ~(listView.page >= totalPages(listView.data) - 1)
    /\ listView' = Refetch([listView EXCEPT
                               !.page = Min(totalPages(listView.data) - 1, @ + 1)])
    /\ UNCHANGED programVars

\* onFiltersChange={setFilters}: the filters component hands over new filters
ChangeFilters ==
    /\ listShown(listView)
    /\ \E f \in SUBSET FilterFields(listView.view) :
          /\ f # listView.filters
          /\ listView' = Refetch([listView EXCEPT !.filters = f])
    /\ UNCHANGED programVars

\* the router mounts another list view
Navigate ==
    /\ \E v \in Views \ {listView.view} : listView' = Mounted(v)
    /\ UNCHANGED programVars

InitDashboard == Start(KeysOnly)

NextDashboard ==
    \/ QueryLoaded
    \/ ClickPrevious
    \/ ClickNext
    \/ ChangeFilters
    \/ Navigate

SpecDashboard == InitDashboard /\ [][NextDashboard]_vars

(* ------------------------- reading the traces ------------------------- *)

\* positions in the trace of goroutine g of the events sent for a service
SentAt(g, name) ==
    {k \in 1..Len(trace[g]) : trace[g][k].op = "send" /\ trace[g][k].ev.serviceName = name}

\* positions of the sent events with a given step
StepAt(g, name, step) == {k \in SentAt(g, name) : trace[g][k].ev.step = step}

\* positions of the terminal events
TerminalAt(g, name) == {k \in SentAt(g, name) : isTerminal(trace[g][k].ev.step)}

\* positions of the driver calls made for a container
DriverAt(g, containerName) ==
    {k \in 1..Len(trace[g]) : /\ trace[g][k].op \notin {"send", "close"}
                              /\ trace[g][k].ev.serviceName = containerName}

\* positions of the driver calls with a given outcome
CallAt(g, containerName, op) == {k \in DriverAt(g, containerName) : trace[g][k].op = op}

\* every container a container needs, directly or through another one
RECURSIVE TransitiveDeps(_)
TransitiveDeps(containerName) ==
    UNION {{d} \cup TransitiveDeps(d) : d \in Range(dependencies(containerName))}

\* the order of the steps of a service
Rank(step) ==
    CASE step = "starting" -> 1
      [] step = "waiting_health" -> 2
      [] isTerminal(step) -> 3
      [] OTHER -> 0

(* ------------------------------- claims ------------------------------- *)

\* the three requested services are all terminal in the UI's map
ServicesTerminal == \A n \in DisplayNames : isTerminal(startupProgress[n].step)

\* C1: once the UI has applied a terminal (completed or failed) event for
\* each of the three requested services, startupInProgress is false and the
\* Update call that applied the last of them returned checkServices: the
\* flag does not stay true with every requested service terminal.
RunEndsWhenServicesTerminal ==
    ServicesTerminal => (~startupInProgress /\ "checkServices" \in cmds)

\* the goroutine of run c has sent the terminal event of the final service
FinalServiceSent(c) == TerminalAt(c, getServiceDisplayName(services[total])) # {}

\* C2: whatever the keys pressed, a channel is closed only after the
\* terminal event of the final service of its run was sent, and no send and
\* no second close is performed on a closed channel (either one panics).
BusClosedOnceAfterFinalEvent ==
    /\ ~panicked
    /\ \A c \in Runs : chans[c].closed => FinalServiceSent(c)

\* a send or close hit a channel that another run's goroutine had closed
PanicOnForeignClose ==
    /\ panicked
    /\ \E c \in Runs : \E g \in Runs \ {c} :
          \E k \in 1..Len(trace[g]) : trace[g][k] = Op("close", c, NoEvent)

\* C3: for every run started by 's', each of the n = 3 services gets exactly
\* one terminal event: never a second one, and none is missing once the
\* goroutine of the run has ended; when the UI has consumed the events of
\* the ended run, each service is terminal in its map.
ExactlyOneTerminalPerService ==
    \A g \in Runs : \A n \in DisplayNames :
        /\ Cardinality(TerminalAt(g, n)) <= 1
        /\ eng[g].pc = "done" => Cardinality(TerminalAt(g, n)) = 1
        /\ (eng[g].pc = "done" /\ chans[g].q = <<>> /\ readers[g].st = "none")
              => isTerminal(startupProgress[n].step)

\* the successive steps a goroutine sent for each service, in send order
EngineStepsForward ==
    \A g \in Runs : \A n \in DisplayNames :
        /\ \A k \in SentAt(g, n) :
              (\A j \in SentAt(g, n) : k <= j) => trace[g][k].ev.step = "starting"
        /\ \A j, k \in SentAt(g, n) :
              j < k => /\ ~isTerminal(trace[g][j].ev.step)
                       /\ Rank(trace[g][j].ev.step) <= Rank(trace[g][k].ev.step)

\* a new value of startupProgress[service] continues the old one
StepForward(old, new) ==
    IF old = NoEvent THEN new.step = "starting"
    ELSE ~isTerminal(old.step) /\ Rank(old.step) <= Rank(new.step)

\* C4: within one run the steps the engine emits for a service, and the
\* successive values of startupProgress[service].step in the UI, only move
\* forward starting -> waiting_health -> {completed | failed}: the first is
\* starting, none goes backward, none follows a terminal one.
StepsOnlyForward ==
    [][/\ EngineStepsForward'
       /\ \A n \in DisplayNames :
             (startupProgress'[n] # startupProgress[n] /\ startupProgress'[n] # NoEvent)
                => StepForward(startupProgress[n], startupProgress'[n])]_vars

\* C7: startServiceIntelligent issues its start commands in an order that
\* puts every dependency before each container that depends on it, and
\* issues at most one start command per container.
StartOrderRespectsDependencies ==
    \A a, b \in 1..Len(intel.cmds) :
        /\ intel.cmds[b] \in Range(dependencies(intel.cmds[a])) => b < a
        /\ a # b => intel.cmds[a] # intel.cmds[b]

\* C8: when startServiceIntelligent issues the start command of its target,
\* every transitive dependency of the target was found running or had a
\* start command issued before.
FullDependencyChainStarted ==
    LET target == getContainerName(intel.target)
    IN  (intel.pc = "done" /\ intel.cmds # <<>> /\ Last(intel.cmds) = target)
           => \A d \in TransitiveDeps(target) :
                 d \in intel.running \cup Range(SubSeq(intel.cmds, 1, Len(intel.cmds) - 1))

DependenciesTerminalBeforeStarting ==
    \A g \in Runs : \A i \in 1..total :
        \A k \in StepAt(g, getServiceDisplayName(services[i]), "starting") :
            \A d \in TransitiveDeps(services[i]) :
                /\ \E j \in TerminalAt(g, getServiceDisplayName(d)) : j < k
                /\ \A j \in SentAt(g, getServiceDisplayName(d)) : j < k

\* graphiti-mcp was announced after one dependency failed to start and the
\* other one went through a health wait
DependentAnnounced ==
    \E g \in Runs :
        /\ StepAt(g, "Graphiti MCP", "starting") # {}
        /\ StepAt(g, "FalkorDB", "failed") # {}
        /\ StepAt(g, "Ollama", "waiting_health") # {}

\* trace entry k of goroutine g is the sending of an event
IsSend(g, k, name, step) ==
    /\ trace[g][k].op = "send"
    /\ trace[g][k].ev.serviceName = name
    /\ trace[g][k].ev.step = step

\* trace entry k of goroutine g begins what follows services[i]: the
\* starting event of the next service, or the close after the last one
IsNextTurn(g, k, i) ==
    IF i < total THEN IsSend(g, k, getServiceDisplayName(services[i + 1]), "starting")
    ELSE trace[g][k].op = "close"

\* C9: for a service found running at its turn the goroutine issues no
\* start command and no poll or inspection, sends no waiting_health event,
\* and sends one completed event at (i+1)/n, right after the check and right
\* before the next service's turn.
AlreadyRunningFastPath ==
    \A g \in Runs : \A i \in 1..total :
        LET c == services[i]
            n == getServiceDisplayName(c)
        IN  \A k \in CallAt(g, c, "running") :
              /\ DriverAt(g, c) = {k}
              /\ StepAt(g, n, "waiting_health") = {}
              /\ StepAt(g, n, "failed") = {}
              /\ Cardinality(StepAt(g, n, "completed")) <= 1
              /\ k < Len(trace[g]) =>
                    /\ IsSend(g, k + 1, n, "completed")
                    /\ trace[g][k + 1].ev.progress * total = Scale * i
              /\ k + 1 < Len(trace[g]) => IsNextTurn(g, k + 2, i)

\* the second service was found running and the third one was announced
FastPathTaken ==
    \E g \in Runs :
        /\ CallAt(g, "ollama", "running") # {}
        /\ StepAt(g, "Ollama", "completed") # {}
        /\ StepAt(g, "Graphiti MCP", "starting") # {}

\* C10: when both spellings of the start command fail for a service, the
\* goroutine sends a failed event for it whose logs hold the error line,
\* sends no waiting_health and no completed event for it, goes on with the
\* next service, and by its end has checked every later service.
StartFailureDoesNotAbort ==
    \A g \in Runs : \A i \in 1..total :
        LET c == services[i]
            n == getServiceDisplayName(c)
        IN  \A k \in CallAt(g, c, "docker-compose: error") :
              /\ StepAt(g, n, "waiting_health") = {}
              /\ StepAt(g, n, "completed") = {}
              /\ k < Len(trace[g]) =>
                    /\ IsSend(g, k + 1, n, "failed")
                    /\ "error_starting" \in Range(trace[g][k + 1].ev.logs)
              /\ k + 1 < Len(trace[g]) => IsNextTurn(g, k + 2, i)
              /\ eng[g].pc = "done" =>
                    \A j \in (i + 1)..total :
                        /\ StepAt(g, getServiceDisplayName(services[j]), "starting") # {}
                        /\ CallAt(g, services[j], "running")
                              \cup CallAt(g, services[j], "not running") # {}

\* the first service failed to start and the run went on to its end, the
\* later services started
FailedThenWentOn ==
    \E g \in Runs :
        /\ StepAt(g, "FalkorDB", "failed") # {}
        /\ StepAt(g, "Ollama", "completed") # {}
        /\ StepAt(g, "Graphiti MCP", "completed") # {}
        /\ eng[g].pc = "done"

\* the trace entries of the inspections of a health wait
PollOps == {"poll: not running", "poll: healthy", "poll: running", "poll: unhealthy",
            "poll: unknown"}

\* positions of the inspections goroutine g made in the health wait of a container
PollAt(g, containerName) == {k \in DriverAt(g, containerName) : trace[g][k].op \in PollOps}

\* C11: after a health wait that ended by timeout, the terminal event of
\* the service is completed when the final inspection found the container
\* running and failed when it found it not running.
TimeoutTerminalFollowsInspection ==
    \A g \in Runs : \A i \in 1..total :
        LET c == services[i]
            n == getServiceDisplayName(c)
        IN  /\ \A k \in CallAt(g, c, "timeout: running") :
                  k < Len(trace[g]) => IsSend(g, k + 1, n, "completed")
            /\ \A k \in CallAt(g, c, "timeout: not running") :
                  k < Len(trace[g]) => IsSend(g, k + 1, n, "failed")

\* C12: every health wait ends at the first inspection that reports the
\* container running with health healthy or running: the poll loop of the
\* progress run makes no inspection after such a report, and waitForHealth
\* is not still waiting after one.
HealthWaitEndsAtFirstReadyReport ==
    /\ \A g \in Runs : \A i \in 1..total :
          \A k \in CallAt(g, services[i], "poll: healthy")
                      \cup CallAt(g, services[i], "poll: running") :
              \A j \in PollAt(g, services[i]) : j <= k
    /\ (intel.pc = "wait" /\ intel.elapsed > 0) => ~healthReady(intel.info)

\* the longest health wait of a container, in seconds
WaitLimit(containerName) ==
    IF containerName = "ollama" THEN MaxWaitOllama ELSE MaxWaitDefault

\* C13: with immediate driver calls, a health wait that never sees a ready
\* container makes at most maxWait / 3 s inspections, is over maxWait + 3 s
\* after it began at the latest (maxWait 180 s for ollama, 120 s otherwise),
\* and its end is followed at once by the terminal event of the service.
HealthWaitBounded ==
    \A g \in Runs :
        /\ eng[g].pc = "poll" => eng[g].elapsed < WaitLimit(services[eng[g].i + 1])
        /\ eng[g].pc = "final" =>
              eng[g].elapsed <= WaitLimit(services[eng[g].i + 1]) + CheckInterval
        /\ \A i \in 1..total :
              /\ Cardinality(PollAt(g, services[i])) * CheckInterval <= WaitLimit(services[i])
              /\ \A k \in CallAt(g, services[i], "timeout: running")
                          \cup CallAt(g, services[i], "timeout: not running") :
                    k < Len(trace[g]) =>
                       /\ trace[g][k + 1].op = "send"
                       /\ trace[g][k + 1].ev.serviceName = getServiceDisplayName(services[i])
                       /\ isTerminal(trace[g][k + 1].ev.step)

\* the wait of ollama used up its 180 s and its terminal event was sent
OllamaWaitTimedOut ==
    \E g \in Runs :
        /\ Cardinality(PollAt(g, "ollama")) * CheckInterval = MaxWaitOllama
        /\ TerminalAt(g, "Ollama") # {}
        /\ CallAt(g, "ollama", "timeout: running") \cup CallAt(g, "ollama", "timeout: not running") # {}

\* C14: after 's' started a new run, every entry present in startupProgress
\* was produced by an event of the newest run: no event sent by the
\* goroutine of an earlier run is applied to the state of a later run.
OnlyNewestRunApplied ==
    \A n \in ProgressKeys :
        startupProgress[n] # NoEvent => startupProgress[n].run = startupProgressChan

\* an event of the first run's goroutine is in the map of the second run
StaleEventApplied ==
    /\ startupProgressChan = 2
    /\ \E n \in DisplayNames : startupProgress[n] # NoEvent /\ startupProgress[n].run = 1

\* C15: on every tick, whether or not a run is in progress, Update issues
\* checkServices and updateContainerStats.
TickRefreshesServicesAndStats ==
    [][UpdateTick => {"checkServices", "updateContainerStats"} \subseteq cmds']_vars

\* the command of a key has ended and its message was handled by Update
KeyCommandOver(intent) == intel.pc = "done" /\ intel.intent = intent

\* the key asked for a start: Start All, or Enter on a service found not running
StartIntentOver ==
    \/ KeyCommandOver("start all")
    \/ KeyCommandOver("toggle") /\ getContainerName(intel.target) \notin intel.running

\* C16: each start intent of the UI creates a new orchestration run whose
\* progress events go over the channel into startupProgress: 's' makes a
\* channel and sets the in-progress flag, and when the command of Enter on
\* a stopped service or of Start All is over, a channel was made since the
\* key was pressed and the run it belongs to is shown as in progress.
StartIntentCreatesRun ==
    /\ startupInProgress => startupProgressChan > 0
    /\ StartIntentOver => (startupProgressChan > intel.seenChan /\ startupInProgress)

\* C17: when the command of Enter on a service is over, then for a service
\* found running `docker stop` was run for its container only and nothing
\* was started, and for a service found not running a start command was
\* issued for each dependency not running and, last, for the service.
ToggleStartsOrStops ==
    KeyCommandOver("toggle") =>
        LET c == getContainerName(intel.target)
        IN  IF c \in intel.running
            THEN intel.stopped = <<c>> /\ intel.cmds = <<>>
            ELSE /\ intel.stopped = <<>>
                 /\ intel.cmds # <<>>
                 /\ Last(intel.cmds) = c
                 /\ \A d \in Range(dependencies(c)) :
                       d \in intel.running \cup Range(intel.cmds)

\* Enter on a running service ended with that container stopped
ToggleStopped ==
    /\ KeyCommandOver("toggle")
    /\ intel.stopped = <<getContainerName(intel.target)>>

\* C18: when the command of 'p' or 'd' that found graphiti-mcp or falkordb
\* not running is over, start commands were issued for the missing
\* dependencies and, after them, for atlas-engine (atlas-dashboard).
ProfileStartFollowsDependencies ==
    ((KeyCommandOver("processing") \/ KeyCommandOver("dashboard")) /\ intel.running = {}) =>
        /\ intel.cmds # <<>>
        /\ Last(intel.cmds) = getContainerName(intel.target)
        /\ {"graphiti-mcp", "falkordb"} \subseteq Range(intel.cmds)

\* the start command of the target of startServiceIntelligent was issued
TargetStartIssued ==
    /\ intel.pc = "done"
    /\ intel.cmds # <<>>
    /\ Last(intel.cmds) = getContainerName(intel.target)

\* C19: when startServiceIntelligent issues the start command of its target,
\* every dependency of the target was observed healthy by waitForHealth or
\* waited on for the full 60 seconds.
DependenciesHealthyOrTimedOut ==
    (intel.intent = "" /\ (intel.pc = "target" \/ TargetStartIssued)) =>
        \A d \in Range(dependencies(getContainerName(intel.target))) :
            \E k \in 1..Len(intel.waits) :
                /\ intel.waits[k].dep = d
                /\ intel.waits[k].ended = "healthy" \/ intel.waits[k].elapsed >= DepTimeout

\* a dependency was waited on for the full 60 seconds before the target
DependencyWaitTimedOut ==
    /\ intel.intent = ""
    /\ TargetStartIssued
    /\ \E k \in 1..Len(intel.waits) :
          intel.waits[k].ended = "timeout" /\ intel.waits[k].elapsed >= DepTimeout

\* C20: a failed start of a dependency stays local to it: startServiceIntelligent
\* still issues the start command of its target when it has ended, and a
\* progress run that has ended announced every service after a failed one.
DependencyFailureStaysLocal ==
    /\ (intel.intent = "" /\ intel.pc = "done" /\ getContainerName(intel.target) # "") =>
          getContainerName(intel.target) \in Range(intel.cmds)
    /\ \A g \in Runs : \A i \in 1..total :
          (eng[g].pc = "done" /\ StepAt(g, getServiceDisplayName(services[i]), "failed") # {}) =>
              \A j \in (i + 1)..total :
                  StepAt(g, getServiceDisplayName(services[j]), "starting") # {}

\* the operations a key starts that report their outcome on the status line
Operations == {"stop all", "build", "toggle", "restart", "processing", "dashboard"}

\* C21: once the command of a user operation (stop all, build and start,
\* stop or start of one service, restart, start processing, start dashboard)
\* has ended and its message was handled by Update, statusMsg holds the
\* message the command built for its outcome, on success as on failure.
OperationSetsStatus ==
    \A op \in Operations :
        KeyCommandOver(op) => (intel.text # "" /\ statusMsg = intel.text)

\* stop all went through and the status line still shows the initial text
StatusLostOnSuccess ==
    /\ KeyCommandOver("stop all")
    /\ intel.calls # <<>>
    /\ ~composeFailed(<<Last(intel.calls).first, Last(intel.calls).second>>)
    /\ statusMsg = "Ready"

\* s is a prefix of t
IsPrefix(s, t) == Len(s) <= Len(t) /\ SubSeq(t, 1, Len(s)) = s

\* C22: within one run the logs of a service's entry of startupProgress are
\* append-only: each time Update replaces the entry of a service, the logs
\* of the old entry are a prefix of the logs of the new one.
ServiceLogsAppendOnly ==
    [][\A n \in DisplayNames :
          (startupProgress[n] # NoEvent /\ startupProgress'[n] # NoEvent)
             => IsPrefix(startupProgress[n].logs, startupProgress'[n].logs)]_vars

\* the entry of a service shows its waiting_health event without the line
\* its starting event carried
StartingLineDropped ==
    \E n \in DisplayNames :
        /\ startupProgress[n].step = "waiting_health"
        /\ "starting_service" \notin Range(startupProgress[n].logs)

\* C23: the progress events Update handled are, in order, the first events
\* sent: the k-th event handled is the k-th event any goroutine sent.
AppliedInSendOrder == \A k \in 1..Len(applied) : applied[k] = k

\* an event was handled after an event that was sent later
AppliedAfterLaterEvent ==
    \E j, k \in 1..Len(applied) : j < k /\ applied[j] > applied[k]

\* every row of the list has been written by a refresh
Refreshed == \A k \in 1..Len(modelServices) : modelServices[k].status # ""

\* C24: getContainerInfo reports not-running when the listing fails or does
\* not show the container, and a refresh always yields the five services of
\* the static list, in order, each running or stopped: running exactly when
\* the listing succeeded and showed its container.
RefreshToleratesDriver ==
    /\ \A o \in Observations : o.ps # "listed" => ~getContainerInfo(o).running
    /\ Len(modelServices) = 5
    /\ \A k \in 1..Len(modelServices) : modelServices[k].name = serviceList[k]
    /\ modelServices = initialServices \/ Refreshed
    /\ Refreshed =>
          \A k \in 1..Len(modelServices) :
              /\ modelServices[k].status \in {"running", "stopped"}
              /\ modelServices[k].status = "running" <=> modelServices[k].obs.ps = "listed"

\* a refresh met a failing listing for one service and a running container
\* for another
RefreshedThroughFailure ==
    /\ Refreshed
    /\ \E j, k \in 1..Len(modelServices) :
          /\ modelServices[j].obs = ObsPsError
          /\ modelServices[j].status = "stopped"
          /\ modelServices[k].obs.ps = "listed"
          /\ modelServices[k].status = "running"

\* the goroutine of run g has sent the event of a failed preflight
PreflightFailureSent(g) == StepAt(g, "System", "failed") # {}

\* C25: a goroutine started by 's' ends by closing its channel after the
\* terminal event of the last service (or the preflight failure event), and
\* until then it can go on: it does not end by a crash of the process.
EngineTerminates ==
    \A g \in Runs :
        /\ eng[g].pc = "done" =>
              /\ FinalServiceSent(g) \/ PreflightFailureSent(g)
              /\ \E k \in 1..Len(trace[g]) : trace[g][k].op = "close"
        /\ eng[g].pc \notin {"idle", "done"} => ~panicked

\* the process crashed while the goroutine of the newest run had not sent
\* the terminal event of its last service
NewestRunCutShort ==
    /\ panicked
    /\ startupProgressChan = MaxRuns
    /\ eng[MaxRuns].pc \notin {"idle", "done"}
    /\ ~FinalServiceSent(MaxRuns)

\* the read commands that were issued and have not returned
PendingReads == {k \in Runs : readers[k].st \in {"issued", "waiting"}}

\* C26: at most one read of the channel is outstanding at any time.
AtMostOneReadOutstanding == Cardinality(PendingReads) <= 1

\* two read commands are blocked on the same channel
TwoReadsOnOneChannel ==
    \E j, k \in Runs :
        /\ j # k
        /\ readers[j].st = "waiting"
        /\ readers[k].st = "waiting"
        /\ readers[j].ch = readers[k].ch

\* the read command k is blocked on an open channel with nothing buffered
BlockedRead(k) ==
    /\ readers[k].st = "waiting"
    /\ chans[readers[k].ch].q = <<>>
    /\ ~chans[readers[k].ch].closed

\* a goroutine that has not ended may still send on, or close, channel c
MayStillFeed(c) == \E g \in Runs : eng[g].pc \notin {"idle", "done"} /\ eng[g].seen <= c

\* C27: every read command can still return: while it is blocked, some
\* goroutine that has not ended may still send on its channel or close it.
EveryReadCanReturn ==
    \A k \in Runs : (~panicked /\ BlockedRead(k)) => MayStillFeed(readers[k].ch)

\* the positions of the sends of goroutine g
SendsOf(g) == {k \in 1..Len(trace[g]) : trace[g][k].op = "send"}

\* C28: a goroutine sends at most BusCapacity events in its run, so that no
\* send finds the buffer full even when nothing is consumed.
RunFitsInBus == \A g \in Runs : Cardinality(SendsOf(g)) <= BusCapacity

\* the buffer is full and the goroutine is in a health wait
BusFullDuringWait ==
    \E g \in Runs : Len(chans[g].q) = BusCapacity /\ eng[g].pc = "poll"

\* the inspections of a health wait that do not end it
WaitingPollOps == {"poll: not running", "poll: unhealthy", "poll: unknown"}

\* C29: in a health wait every inspection that does not end the wait is
\* followed by the sending of one waiting_health event of the service,
\* whether or not the container was reported running, and two
\* waiting_health events are never sent without an inspection and its
\* 3 s sleep between them.
EveryPollSendsUpdate ==
    \A g \in Runs : \A i \in 1..total :
        LET n == getServiceDisplayName(services[i])
        IN  /\ \A k \in PollAt(g, services[i]) :
                  (trace[g][k].op \in WaitingPollOps /\ k < Len(trace[g]))
                     => IsSend(g, k + 1, n, "waiting_health")
            /\ \A k \in StepAt(g, n, "waiting_health") :
                  k < Len(trace[g]) => ~IsSend(g, k + 1, n, "waiting_health")

\* an inspection found the container not running and the next thing the
\* goroutine did was another inspection
PollWithoutUpdate ==
    \E g \in Runs : \E k \in CallAt(g, "falkordb", "poll: not running") :
        k < Len(trace[g]) /\ trace[g][k + 1].op = "poll: not running"

\* the texts of the statusMsg a command returns when a compose command failed
ComposeFailureTexts ==
    {"Failed to start dependency", "Failed to start", "Failed to stop services",
     "Failed to build services", "Failed to start services", "Failed to start Atlas Engine",
     "Failed to build dashboard", "Failed to start dashboard"}

\* the trace entries of the second spelling of a start command
SecondSpellingOps == {"docker-compose: ok", "docker-compose: error"}

SlotOf(name) == CHOOSE i \in 0..(total - 1) : getServiceDisplayName(services[i + 1]) = name

\* C31: every event a goroutine sends for the i-th of the n services carries
\* a progress value inside [i/n, (i+1)/n], hence inside [0, 1]; a periodic
\* health-wait update never exceeds (i+1)/n and a terminal event carries
\* exactly (i+1)/n.
ProgressInsideSlot ==
    \A g \in Runs : \A k \in 1..Len(trace[g]) :
        (trace[g][k].op = "send" /\ trace[g][k].ev.serviceName \in DisplayNames) =>
            LET p == trace[g][k].ev.progress
                i == SlotOf(trace[g][k].ev.serviceName)
            IN  /\ Scale * i <= total * p
                /\ total * p <= Scale * (i + 1)
                /\ 0 <= p /\ p <= Scale
                /\ isTerminal(trace[g][k].ev.step) => total * p = Scale * (i + 1)

\* a service other than the first was announced inside its slot, one of its
\* health-wait updates was cut at the top of the slot, and its terminal
\* event followed
SlotTopReachedWhileWaiting ==
    \E g \in Runs : \E n \in DisplayNames :
        /\ SlotOf(n) > 0
        /\ \E a \in StepAt(g, n, "starting") : \E b \in StepAt(g, n, "waiting_health") :
           \E c \in TerminalAt(g, n) :
              /\ a < b /\ b < c
              /\ total * trace[g][a].ev.progress > Scale * SlotOf(n)
              /\ total * trace[g][b].ev.progress = Scale * (SlotOf(n) + 1)

(* ------------------------------ C32 ----------------------------------- *)

\* the operations of goroutine g that are neither a send, a close nor the
\* preflight check itself
CallsAfterPreflight(g) ==
    {k \in 1..Len(trace[g]) : trace[g][k].op \notin {"send", "close", "preflight"}}

\* C32: when the preflight check finds the container runtime unreachable or
\* docker-compose.yml missing, the goroutine sends exactly one failed event
\* for "System", then closes the bus; it issues no start command (no driver
\* call at all after the check) and sends no event for a real service.
PreflightFailureEndsRun ==
    \A g \in Runs :
        PreflightFailureSent(g) =>
            /\ Cardinality(StepAt(g, "System", "failed")) = 1
            /\ \A n \in DisplayNames : SentAt(g, n) = {}
            /\ CallsAfterPreflight(g) = {}
            /\ eng[g].pc \in {"close", "done"}
            /\ eng[g].pc = "done" =>
                  /\ Last(trace[g]).op = "close"
                  /\ trace[g][Len(trace[g]) - 1].ev.step = "failed"
                  /\ chans[Last(trace[g]).ch].closed

\* the compose file was missing: the System failure was sent and the bus
\* closed
PreflightFailedAndClosed ==
    \E g \in Runs :
        /\ \E k \in StepAt(g, "System", "failed") : trace[g][k].ev.logs = <<"compose_missing">>
        /\ eng[g].pc = "done"
        /\ Last(trace[g]).op = "close"

(* ------------------------------ C33 ----------------------------------- *)

\* the markers the runtime puts in a status text
MarkHealthy == <<"(">> \o TextHealthy \o <<")">>
MarkUnhealthy == <<"(", "u", "n">> \o TextHealthy \o <<")">>
MarkStarting == <<"(">> \o TextHealth \o <<":", " ", "s", "t", "a", "r", "t", "i", "n", "g", ")">>

\* the health the runtime reports with an answer to the status query
ReportedHealth(o) ==
    IF o.statusErr THEN "unknown"
    ELSE IF Contains(o.status, MarkUnhealthy) \/ Contains(o.status, MarkStarting)
         THEN "unhealthy"
         ELSE IF Contains(o.status, MarkHealthy) THEN "healthy" ELSE "running"

\* C33: getContainerInfo reports health healthy only for a status text that
\* marks the container healthy; a text marking it unhealthy or still
\* starting its health check yields unhealthy, a running container without
\* a health marker yields running, a failed status query yields unknown; so
\* the test of the health wait never succeeds on a container the runtime
\* reports as unhealthy.
HealthFollowsStatusText ==
    /\ \A k \in 1..Len(modelServices) :
          modelServices[k].status = "running"
             => modelServices[k].health = ReportedHealth(modelServices[k].obs)
    /\ \A k \in 1..Len(modelServices) :
          (modelServices[k].status = "running"
              /\ Contains(modelServices[k].obs.status, MarkUnhealthy))
             => ~healthReady(getContainerInfo(modelServices[k].obs))

(* ------------------------------ C34 ----------------------------------- *)

\* C34: from Init onward exactly one tick timer is outstanding at all times:
\* Init starts one, each handled tickMsg starts exactly one and no other
\* message or key press starts any; so the next tickMsg can always be
\* handled (ticks recur) and there are never two of them (ticks do not
\* multiply).
ExactlyOneTickOutstanding ==
    /\ ticks = 1
    /\ ~panicked => ENABLED UpdateTick

\* a tickMsg was handled while a run was in progress and the command of a
\* key was running, and its batch is the latest one
TickHandledAmongOthers ==
    /\ "tick" \in cmds
    /\ "updateStats" \in cmds
    /\ startupInProgress
    /\ applied # <<>>
    /\ intel.pc \notin {"idle", "done"}

(* ------------------------------ C35 ----------------------------------- *)

\* C35: handling a tickMsg changes nothing of the model but the elapsedTime
\* of the startupProgress entries whose step is not terminal, and that only
\* while a run is in progress: no entry is added, the step, progress and
\* logs of every entry, every field of a completed or failed entry,
\* startupInProgress, the startup logs, the services and statusMsg stay as
\* they are.
TickChangesOnlyElapsedTime ==
    [][UpdateTick =>
          /\ UNCHANGED <<startupInProgress, startupLogs, modelServices, statusMsg>>
          /\ \A n \in ProgressKeys :
                /\ startupProgress'[n].serviceName = startupProgress[n].serviceName
                /\ startupProgress'[n].step = startupProgress[n].step
                /\ startupProgress'[n].progress = startupProgress[n].progress
                /\ startupProgress'[n].logs = startupProgress[n].logs
                /\ (\/ ~startupInProgress
                    \/ startupProgress[n] = NoEvent
                    \/ isTerminal(startupProgress[n].step))
                      => startupProgress'[n] = startupProgress[n]]_vars

\* a tick fell during a run: the service waiting for its health check got
\* the tick's elapsedTime, a finished service kept the one it was sent with
TickRewroteWaitingEntry ==
    /\ startupInProgress
    /\ "tick" \in cmds
    /\ \E n \in DisplayNames :
          /\ startupProgress[n].step = "waiting_health"
          /\ startupProgress[n].elapsedTime = SinceStartupStart
    /\ \E n \in DisplayNames :
          /\ isTerminal(startupProgress[n].step)
          /\ startupProgress[n].elapsedTime = SinceOverallStart

(* ------------------------------ C36 ----------------------------------- *)

\* C36: in the list views of the dashboard, under any sequence of Next,
\* Previous and filter changes, the page index stays within
\* [0, max(0, totalPages - 1)] for the result set currently loaded, so that
\* the offset asked for never lies beyond the last page of the filtered
\* results.
PageWithinLoadedResults ==
    listView.data # NoData =>
        LET lastPage == IF totalPages(listView.data) - 1 < 0 THEN 0
                        ELSE totalPages(listView.data) - 1
        IN  /\ 0 <= listView.page
            /\ listView.page <= lastPage
            /\ listView.page * ITEMS_PER_PAGE <= lastPage * ITEMS_PER_PAGE

(* ------------------------------ C37 ----------------------------------- *)

IsSendOp(e) == e.op = "send"

\* the sends of the goroutines 1..g, one goroutine after the other
RECURSIVE SentEvents(_)
SentEvents(g) ==
    IF g = 0 THEN <<>> ELSE SentEvents(g - 1) \o SelectSeq(trace[g], IsSendOp)

\* the line set on 's' followed by the logs of every event Update handled
\* since, in the order of arrival
AllStartupLines ==
    LET sent == SentEvents(MaxRuns)
        LogsOfEvent(n) ==
            IF n <= Len(sent) /\ sent[n].ev.seq = n THEN sent[n].ev.logs
            ELSE sent[CHOOSE k \in 1..Len(sent) : sent[k].ev.seq = n].ev.logs
        RECURSIVE Lines(_)
        Lines(n) == IF n = 0 THEN <<"initializing">>
                    ELSE Lines(n - 1) \o LogsOfEvent(applied[n])
    IN  Lines(Len(applied))

\* C37: after any sequence of progress events, startupLogs holds at most 100
\* lines and is exactly the most recent lines (a suffix) of the sequence
\* formed by the line set on 's' followed by the logs of every progress
\* event received since, in arrival order.
StartupLogsAreLatestLines ==
    /\ Len(startupLogs) <= 100
    /\ startupProgressChan = 0 => startupLogs = <<>>
    /\ startupProgressChan # 0 =>
          LET all == AllStartupLines
              n == Len(startupLogs)
          IN  /\ n = Min(100, Len(all))
              /\ startupLogs = SubSeq(all, Len(all) - n + 1, Len(all))

\* more than 100 lines have been received: the line set on 's' and the
\* first lines of the run are gone, the latest line is the last one kept
StartupLogsCut ==
    /\ startupProgressChan # 0
    /\ Len(AllStartupLines) > 100
    /\ Len(startupLogs) = 100
    /\ "initializing" \notin Range(startupLogs)
    /\ Last(startupLogs) = Last(AllStartupLines)


====
